---- MODULE Spec2Model ----
(***************************************************************************)
(* skills-sync client (src/src/sync/client.rs, src/src/main.rs): discovery *)
(* of SKILL.md files, the archive builder with its manifest, the restorer  *)
(* and the upload / download command workflows, as one state machine over  *)
(* a file system, a temporary archive file and a remote store.             *)
(*                                                                         *)
(* A string is a sequence of one-character strings, so that format!,       *)
(* lines(), split_once('=') and replace('\\', "/") are computed character  *)
(* by character.  A path is its sequence of components; every path of the  *)
(* file system is absolute.                                                *)
(***************************************************************************)
EXTENDS Integers, Sequences, FiniteSets, TLC

VARIABLES
    fs,               \* the file system: absolute path -> node
    tmpZip,           \* the temporary archive file at zip_path
    server,           \* the remote store: code (index) -> uploaded archive
    pc,               \* position of the running command
    cmd,              \* the parsed command line (cli::Command)
    base_dirs,        \* execute_upload: the roots handed to scan_skill_files
    rootIdx,          \* scan_skill_files: index of the next root
    skill_files,      \* scan_skill_files: paths found so far / build input
    idx,              \* create_skills_zip / extract_zip: loop index
    name_count,       \* create_skills_zip: HashMap<String, usize>
    names,            \* create_skills_zip: new_filename of every iteration
    manifest_lines,   \* create_skills_zip: Vec<String>
    file_map,         \* extract_zip: HashMap<String, String>
    extracted_files,  \* extract_zip: entry index and full_path of every write
    failedAt,         \* the stage whose error ended the command, if any
    runs,             \* number of command invocations started
    prev              \* outcome of the previous download, while fs is untouched

vars == <<fs, tmpZip, server, pc, cmd, base_dirs, rootIdx, skill_files, idx,
          name_count, names, manifest_lines, file_map, extracted_files, failedAt,
          runs, prev>>

-----------------------------------------------------------------------------
(* Bounds of the model *)

\* at most this many candidate trees populate the initial file system
MaxTrees == 3

\* command invocations per behaviour
MaxRuns == 2

-----------------------------------------------------------------------------
(* Strings *)

RECURSIVE Join(_, _)
\* parts joined with sep between them (Path display / to_string_lossy)
Join(parts, sep) ==
    IF parts = <<>> THEN <<>>
    ELSE IF Len(parts) = 1 THEN parts[1]
    ELSE parts[1] \o sep \o Join(Tail(parts), sep)

\* index of the first occurrence of ch in s, 0 when there is none
FirstIndex(s, ch) ==
    IF \E i \in 1..Len(s) : s[i] = ch
    THEN CHOOSE i \in 1..Len(s) : s[i] = ch /\ \A j \in 1..(i - 1) : s[j] # ch
    ELSE 0

RECURSIVE SplitOn(_, _)
\* str::split(ch): the segments between occurrences of ch, empty ones kept
SplitOn(s, ch) ==
    LET i == FirstIndex(s, ch)
    IN  IF i = 0 THEN <<s>>
        ELSE <<SubSeq(s, 1, i - 1)>> \o SplitOn(SubSeq(s, i + 1, Len(s)), ch)

\* a line without its trailing carriage return
StripCR(line) ==
    IF Len(line) > 0 /\ line[Len(line)] = "\r"
    THEN SubSeq(line, 1, Len(line) - 1)
    ELSE line

\* str::lines(): split at "\n", no final empty line, a trailing "\r" dropped
Lines(text) ==
    LET segs == SplitOn(text, "\n")
        kept == IF segs[Len(segs)] = <<>> THEN SubSeq(segs, 1, Len(segs) - 1)
                ELSE segs
    IN  [k \in 1..Len(kept) |-> StripCR(kept[k])]

\* str::replace(from, to) for single characters
Replace(s, from, to) == [k \in 1..Len(s) |-> IF s[k] = from THEN to ELSE s[k]]

Digit(d) ==
    CASE d = 0 -> "0" [] d = 1 -> "1" [] d = 2 -> "2" [] d = 3 -> "3"
      [] d = 4 -> "4" [] d = 5 -> "5" [] d = 6 -> "6" [] d = 7 -> "7"
      [] d = 8 -> "8" [] d = 9 -> "9"

RECURSIVE Decimal(_)
\* Display of a usize
Decimal(n) == IF n < 10 THEN <<Digit(n)>> ELSE Decimal(n \div 10) \o <<Digit(n % 10)>>

-----------------------------------------------------------------------------
(* Names fixed by the program *)

SKILL_md     == <<"S", "K", "I", "L", "L", ".", "m", "d">>
skill_md     == <<"s", "k", "i", "l", "l", ".", "m", "d">>
manifest_txt == <<"m", "a", "n", "i", "f", "e", "s", "t", ".", "t", "x", "t">>
unknown      == <<"u", "n", "k", "n", "o", "w", "n">>
dot_md       == <<".", "m", "d">>
dot_claude   == <<".", "c", "l", "a", "u", "d", "e">>
dot_codex    == <<".", "c", "o", "d", "e", "x">>
skills       == <<"s", "k", "i", "l", "l", "s">>

\* WalkDir::min_depth and max_depth of scan_skill_files
min_depth == 1
max_depth == 3

\* dirs::home_dir()
Home == << <<"h">> >>

-----------------------------------------------------------------------------
(* Paths *)

IsPrefix(p, q) == Len(p) <= Len(q) /\ SubSeq(q, 1, Len(p)) = p

Prefixes(p) == {SubSeq(p, 1, k) : k \in 0..Len(p)}

\* Path::parent of an absolute path with at least one component
Parent(p) == SubSeq(p, 1, Len(p) - 1)

\* Path::file_name
FileName(p) == p[Len(p)]

\* a path of the file system as a string, separators already forward slashes
AbsDisplay(p) == <<"/">> \o Join(p, <<"/">>)

\* a path string as the components the operating system resolves: empty and
\* "." components dropped
Components(s) ==
    LET segs == SplitOn(s, "/")
    IN  SelectSeq(segs, LAMBDA c : c # <<>> /\ c # <<".">>)

\* PathBuf::join(base, s): an absolute s replaces base
JoinPath(base, s) ==
    IF Len(s) > 0 /\ s[1] = "/" THEN Components(s) ELSE base \o Components(s)

-----------------------------------------------------------------------------
(* The file system *)

DirNode == [kind |-> "dir", data |-> <<>>]
FileNode(d) == [kind |-> "file", data |-> d]

Exists(fsys, p) == p \in DOMAIN fsys
IsDir(fsys, p)  == Exists(fsys, p) /\ fsys[p].kind = "dir"
IsFile(fsys, p) == Exists(fsys, p) /\ fsys[p].kind = "file"

Restrict(fsys, S) == [p \in S |-> fsys[p]]

\* fs::remove_dir_all
RemoveDirAll(fsys, p) == Restrict(fsys, {q \in DOMAIN fsys : ~IsPrefix(p, q)})

\* fs::remove_file
RemoveFile(fsys, p) == Restrict(fsys, DOMAIN fsys \ {p})

\* fs::create_dir_all fails when a component of p exists and is no directory
CreateDirAllOk(fsys, p) == \A q \in Prefixes(p) : Exists(fsys, q) => IsDir(fsys, q)

CreateDirAll(fsys, p) ==
    [q \in DOMAIN fsys \cup Prefixes(p) |->
        IF q \in DOMAIN fsys THEN fsys[q] ELSE DirNode]

\* fs::File::create needs a parent directory and no directory at p
FileCreateOk(fsys, p) == Len(p) > 0 /\ IsDir(fsys, Parent(p)) /\ ~IsDir(fsys, p)

\* File::create followed by io::copy of the whole entry
WriteFile(fsys, p, d) ==
    [q \in DOMAIN fsys \cup {p} |-> IF q = p THEN FileNode(d) ELSE fsys[q]]

\* a file system holding the given nodes and the directories above them
MkFS(nodes) ==
    LET dom == UNION {Prefixes(n.path) : n \in nodes} \cup Prefixes(Home)
    IN  [p \in dom |->
            IF \E n \in nodes : n.path = p
            THEN LET n == CHOOSE m \in nodes : m.path = p
                 IN  IF n.kind = "dir" THEN DirNode ELSE FileNode(n.data)
            ELSE DirNode]

-----------------------------------------------------------------------------
(* Discovery: scan_skill_files *)

\* get_default_skills_dirs
DefaultSkillsDirs == <<Home \o <<dot_claude, skills>>, Home \o <<dot_codex, skills>>>>

\* the entries WalkDir yields below root: files and directories alike, at
\* depth min_depth..max_depth; a root that is a file yields nothing
WalkDir(fsys, root) ==
    {p \in DOMAIN fsys :
        /\ IsPrefix(root, p)
        /\ Len(p) - Len(root) >= min_depth
        /\ Len(p) - Len(root) <= max_depth}

\* the test of lines 43-44 on an entry's path
NameMatches(p) == FileName(p) = SKILL_md \/ FileName(p) = skill_md

\* length of the longest common prefix of two paths
CommonLen(p, q) ==
    CHOOSE n \in 0..Len(p) :
        /\ n <= Len(q)
        /\ SubSeq(p, 1, n) = SubSeq(q, 1, n)
        /\ (n < Len(p) /\ n < Len(q) => p[n + 1] # q[n + 1])

\* WalkDir visits depth first, a directory before its contents, siblings in
\* the order the operating system lists them: s is such an order of its paths
IsPreorder(s) ==
    /\ \A i, j \in 1..Len(s) : i < j => ~IsPrefix(s[j], s[i])
    /\ \A i, j, k \in 1..Len(s) :
          i < j /\ j < k => CommonLen(s[i], s[j]) >= CommonLen(s[i], s[k])

\* the orders in which one root's matching entries can be pushed
WalkOrders(fsys, root) ==
    LET found == {p \in WalkDir(fsys, root) : NameMatches(p)}
        n == Cardinality(found)
    IN  {s \in [1..n -> found] :
            /\ \A i, j \in 1..n : i # j => s[i] # s[j]
            /\ IsPreorder(s)}

\* the root index after a root that does not exist: continue
AfterMissingRootBreak(i, n) == n + 1

AfterMissingRoot(i, n) == i + 1

-----------------------------------------------------------------------------
(* Archive builder: create_skills_zip *)

\* the owning directory's name, "unknown" when the parent has none
SkillName(skill_file) ==
    IF Len(skill_file) >= 2 THEN FileName(Parent(skill_file)) ELSE unknown

\* the occurrence counter of a name: entry(..).or_insert(0)
CountOf(counts, skill_name) ==
    IF skill_name \in DOMAIN counts THEN counts[skill_name] ELSE 0

\* lines 98-102 with a counter that is one too high after the first file
NewFilenameOffByOne(skill_name, count) ==
    IF count = 0 THEN skill_name \o dot_md
    ELSE skill_name \o <<"_">> \o Decimal(count + 1) \o dot_md

\* format!("{}.md") for the first file of a name, format!("{}_{}.md") after
NewFilename(skill_name, count) ==
    IF count = 0 THEN skill_name \o dot_md
    ELSE skill_name \o <<"_">> \o Decimal(count) \o dot_md

\* strip_prefix(home).unwrap_or(skill_file), to_string_lossy, '\\' -> "/";
\* dirs::home_dir() is Some on every machine of the model
RelativeStr(skill_file) ==
    LET relative == IF IsPrefix(Home, skill_file)
                    THEN Join(SubSeq(skill_file, Len(Home) + 1, Len(skill_file)), <<"/">>)
                    ELSE AbsDisplay(skill_file)
    IN  Replace(relative, "\\", "/")

\* format!("{}={}", new_filename, relative_str)
ManifestLine(new_filename, relative_str) == new_filename \o <<"=">> \o relative_str

RECURSIVE ManifestText(_)
\* writeln! of every manifest line
ManifestText(lines) ==
    IF lines = <<>> THEN <<>>
    ELSE lines[1] \o <<"\n">> \o ManifestText(Tail(lines))

HasEntry(entries, name) == \E k \in 1..Len(entries) : entries[k].name = name

-----------------------------------------------------------------------------
(* Archive restorer: extract_zip *)

\* archive.by_name("manifest.txt"): the text of the manifest entry, if any
ManifestOf(entries) ==
    LET ks == {k \in 1..Len(entries) : entries[k].name = manifest_txt}
    IN  IF ks = {} THEN <<>>
        ELSE entries[CHOOSE k \in ks : \A m \in ks : m <= k].data

\* a manifest reader that gives up at the first line without '='
RECURSIVE ParseLinesStrict(_, _)
ParseLinesStrict(lines, map) ==
    IF lines = <<>> THEN map
    ELSE LET line == lines[1]
             i == FirstIndex(line, "=")
         IN  IF i = 0 THEN map
             ELSE LET filename == SubSeq(line, 1, i - 1)
                      original_path == SubSeq(line, i + 1, Len(line))
                  IN  ParseLinesStrict(Tail(lines),
                          [k \in DOMAIN map \cup {filename} |->
                              IF k = filename THEN original_path ELSE map[k]])

RECURSIVE ParseLines(_, _)
\* lines 250-254: split_once('=') of every line, insert into file_map
ParseLines(lines, map) ==
    IF lines = <<>> THEN map
    ELSE LET line == lines[1]
             i == FirstIndex(line, "=")
         IN  IF i = 0 THEN ParseLines(Tail(lines), map)
             ELSE LET filename == SubSeq(line, 1, i - 1)
                      original_path == SubSeq(line, i + 1, Len(line))
                  IN  ParseLines(Tail(lines),
                          [k \in DOMAIN map \cup {filename} |->
                              IF k = filename THEN original_path ELSE map[k]])

EmptyMap == [k \in {} |-> <<>>]

\* the skip of line 279 left out
IsManifestEntryNever(filename) == FALSE

\* line 279
IsManifestEntry(filename) == filename = manifest_txt

\* the flat extraction of an earlier revision: target_dir.join(filename)
FullPathFlat(target_dir, filename, original_path) == target_dir \o <<filename>>

\* line 290: home_dir.join(original_path); target_dir is not used
FullPath(target_dir, filename, original_path) == JoinPath(Home, original_path)

\* a joined path that names a directory: original_path empty or ending in "/"
NamesDirectory(original_path) ==
    original_path = <<>> \/ original_path[Len(original_path)] = "/"

-----------------------------------------------------------------------------
(* The inputs of the model: files a machine may hold, directories a command  *)
(* line may name, archives the remote store may already hold                 *)

foo   == <<"f", "o", "o">>
foo_1 == <<"f", "o", "o", "_", "1">>
a_eq_b == <<"a", "=", "b">>
Skill_md == <<"S", "k", "i", "l", "l", ".", "m", "d">>

ClaudeSkills == Home \o <<dot_claude, skills>>
CodexSkills  == Home \o <<dot_codex, skills>>
Outside      == << <<"o">> >>
FooSkill     == ClaudeSkills \o <<foo, SKILL_md>>

File(p, d) == [path |-> p, kind |-> "file", data |-> d]

\* the trees a machine may hold, any MaxTrees of them at once: skills named
\* foo in both default roots and two levels down, one named foo_1, one whose
\* directory name holds '=', beside it a file one level too deep and a file
\* spelt Skill.md, and a directory named SKILL.md beside a skill outside home
Candidates ==
    { {File(FooSkill, <<"A">>)},
      {File(CodexSkills \o <<foo, SKILL_md>>, <<"B">>)},
      {File(CodexSkills \o <<foo_1, skill_md>>, <<"C">>)},
      {File(CodexSkills \o << <<"k">>, foo, SKILL_md>>, <<"D">>)},
      {File(ClaudeSkills \o <<a_eq_b, SKILL_md>>, <<"E">>),
       File(ClaudeSkills \o << <<"g">>, <<"p">>, <<"q">>, SKILL_md>>, <<"F">>),
       File(ClaudeSkills \o << <<"r">>, Skill_md>>, <<"G">>)},
      {[path |-> CodexSkills \o << <<"d">>, SKILL_md>>, kind |-> "dir", data |-> <<>>],
       File(Outside \o <<foo, SKILL_md>>, <<"H">>)} }

\* another machine, or the same one after the user changed it
OtherMachines ==
    { MkFS({}),
      MkFS({File(FooSkill \o << <<"n">> >>, <<"Z">>)}) }

None == [some |-> FALSE, path |-> <<>>]
Some(p) == [some |-> TRUE, path |-> p]

\* --dir of upload
UploadDirs == {None, Some(Outside)}

\* --dir of download
DownloadDirs == {None, Some(Outside)}

Entry(name, data) == [name |-> name, data |-> data]

FooRel == Join(<<dot_claude, skills, foo, SKILL_md>>, <<"/">>)

\* an archive with a manifest line without '=', an entry the manifest does
\* not name, and a manifest line that names manifest.txt itself
MixedArchive ==
    [valid |-> TRUE,
     entries |-> << Entry(manifest_txt,
                        <<"j", "u", "n", "k", "\n">>
                        \o ManifestLine(foo \o dot_md, FooRel) \o <<"\n">>
                        \o ManifestLine(manifest_txt, <<"m">>) \o <<"\n">>),
                    Entry(<<"x">>, <<"X">>),
                    Entry(foo \o dot_md, <<"Y">>) >>,
     src |-> <<>>]

\* an archive whose first destination lies below its second
NestedArchive ==
    [valid |-> TRUE,
     entries |-> << Entry(<<"i">>, <<"I">>),
                    Entry(<<"o">>, <<"O">>),
                    Entry(manifest_txt,
                        ManifestLine(<<"i">>, FooRel \o <<"/", "n">>) \o <<"\n">>
                        \o ManifestLine(<<"o">>, FooRel) \o <<"\n">>) >>,
     src |-> <<>>]

\* bytes that are no archive
CorruptArchive == [valid |-> FALSE, entries |-> <<>>, src |-> <<>>]

StoredArchives == <<MixedArchive, NestedArchive, CorruptArchive>>

NoFile == [exists |-> FALSE, valid |-> FALSE, entries |-> <<>>]

NoPrev == [some |-> FALSE, code |-> 0, ok |-> FALSE, fs |-> MkFS({})]

-----------------------------------------------------------------------------
(* The state machine *)

Init ==
    /\ fs \in {MkFS(UNION T) : T \in {U \in SUBSET Candidates : Cardinality(U) <= MaxTrees}}
    /\ tmpZip = NoFile
    /\ server = StoredArchives
    /\ pc = "idle"
    /\ cmd = [kind |-> "none", dir |-> None, code |-> 0]
    /\ base_dirs = <<>>
    /\ rootIdx = 1
    /\ skill_files = <<>>
    /\ idx = 1
    /\ name_count = EmptyMap
    /\ names = <<>>
    /\ manifest_lines = <<>>
    /\ file_map = EmptyMap
    /\ extracted_files = <<>>
    /\ failedAt = "none"
    /\ runs = 0
    /\ prev = NoPrev

Ended == pc \in {"done", "failed"}

\* extract_zip was called in the command that just ended
RanExtract == cmd.kind = "download" /\ (pc = "done" \/ (pc = "failed" /\ failedAt = "extract"))

\* main: a new process; zip_path is a fresh name in the temp directory
Start(c) ==
    /\ pc \in {"idle", "done", "failed"}
    /\ runs < MaxRuns
    /\ runs' = runs + 1
    /\ cmd' = c
    /\ prev' = IF Ended /\ RanExtract
               THEN [some |-> TRUE, code |-> cmd.code, ok |-> pc = "done", fs |-> fs]
               ELSE NoPrev
    /\ tmpZip' = NoFile
    /\ rootIdx' = 1
    /\ skill_files' = <<>>
    /\ idx' = 1
    /\ name_count' = EmptyMap
    /\ names' = <<>>
    /\ manifest_lines' = <<>>
    /\ file_map' = EmptyMap
    /\ extracted_files' = <<>>
    /\ failedAt' = "none"
    /\ UNCHANGED <<fs, server>>

\* run_sync_client, Command::Upload: execute_upload up to the scan
StartUpload ==
    \E d \in UploadDirs :
        /\ Start([kind |-> "upload", dir |-> d, code |-> 0])
        /\ base_dirs' = IF d.some THEN <<d.path>> ELSE DefaultSkillsDirs
        /\ pc' = "scan"

\* run_sync_client, Command::Download: execute_download up to download_zip
\* (a code the store does not know ends like a failed request in DownloadZip)
StartDownload ==
    \E code \in 1..Len(server), d \in DownloadDirs :
        /\ Start([kind |-> "download", dir |-> d, code |-> code])
        /\ base_dirs' = <<>>
        /\ pc' = "download"

\* the user moves to another machine or changes the files between two commands
EnvChange ==
    /\ Ended
    /\ runs < MaxRuns
    /\ fs' \in OtherMachines
    /\ pc' = "idle"
    /\ UNCHANGED <<tmpZip, server, cmd, base_dirs, rootIdx, skill_files, idx,
                   name_count, names, manifest_lines, file_map, extracted_files,
                   failedAt, runs, prev>>

\* a stage that reports its error and is entered again
FailRetry(stage) ==
    /\ pc' = pc
    /\ failedAt' = stage

\* the ? operator up to main: the error is printed and the process exits
Fail(stage) ==
    /\ pc' = "failed"
    /\ failedAt' = stage

\* scan_skill_files: one iteration of the loop over base_dirs
ScanRoot ==
    /\ pc = "scan"
    /\ rootIdx <= Len(base_dirs)
    /\ LET base_dir == base_dirs[rootIdx]
       IN  IF ~Exists(fs, base_dir)
           THEN /\ rootIdx' = AfterMissingRoot(rootIdx, Len(base_dirs))
                /\ UNCHANGED skill_files
           ELSE /\ \E order \in WalkOrders(fs, base_dir) :
                       skill_files' = skill_files \o order
                /\ rootIdx' = rootIdx + 1
    /\ UNCHANGED <<fs, tmpZip, server, pc, cmd, base_dirs, idx, name_count, names,
                   manifest_lines, file_map, extracted_files, failedAt, runs, prev>>

\* execute_upload after the scan: nothing found ends the command with Ok,
\* otherwise create_skills_zip creates the file at zip_path
ScanEnd ==
    /\ pc = "scan"
    /\ rootIdx > Len(base_dirs)
    /\ IF skill_files = <<>>
       THEN pc' = "done" /\ UNCHANGED tmpZip
       ELSE pc' = "build" /\ tmpZip' = [exists |-> TRUE, valid |-> FALSE, entries |-> <<>>]
    /\ manifest_lines' = <<>>
    /\ name_count' = EmptyMap
    /\ names' = <<>>
    /\ idx' = 1
    /\ UNCHANGED <<fs, server, cmd, base_dirs, rootIdx, skill_files, file_map,
                   extracted_files, failedAt, runs, prev>>

\* create_skills_zip: one iteration of the loop over skill_files.  Whether
\* start_file refuses a name the archive already holds depends on the zip
\* crate's version, so both outcomes are possible.
BuildStep ==
    /\ pc = "build"
    /\ idx <= Len(skill_files)
    /\ LET skill_file == skill_files[idx]
           skill_name == SkillName(skill_file)
           count == CountOf(name_count, skill_name)
           new_filename == NewFilename(skill_name, count)
       IN  IF ~IsFile(fs, skill_file)
           THEN /\ Fail("build")
                /\ UNCHANGED <<tmpZip, idx, name_count, names, manifest_lines>>
           ELSE /\ name_count' = [k \in DOMAIN name_count \cup {skill_name} |->
                                     IF k = skill_name THEN count + 1 ELSE name_count[k]]
                /\ names' = Append(names, new_filename)
                /\ \/ /\ tmpZip' = [tmpZip EXCEPT !.entries =
                                       Append(@, Entry(new_filename, fs[skill_file].data))]
                      /\ manifest_lines' = Append(manifest_lines,
                                               ManifestLine(new_filename, RelativeStr(skill_file)))
                      /\ idx' = idx + 1
                      /\ UNCHANGED <<pc, failedAt>>
                   \/ /\ HasEntry(tmpZip.entries, new_filename)
                      /\ Fail("build")
                      /\ UNCHANGED <<tmpZip, idx, manifest_lines>>
    /\ UNCHANGED <<fs, server, cmd, base_dirs, rootIdx, skill_files, file_map,
                   extracted_files, runs, prev>>

\* create_skills_zip after the loop: the manifest entry, finish, the digest
BuildEnd ==
    /\ pc = "build"
    /\ idx > Len(skill_files)
    /\ tmpZip' = [exists |-> TRUE, valid |-> TRUE,
                  entries |-> Append(tmpZip.entries,
                                  Entry(manifest_txt, ManifestText(manifest_lines)))]
    /\ pc' = "upload"
    /\ UNCHANGED <<fs, server, cmd, base_dirs, rootIdx, skill_files, idx, name_count,
                   names, manifest_lines, file_map, extracted_files, failedAt, runs, prev>>

\* the files an archive was built from, with the bytes read
SourceFiles ==
    [k \in 1..Len(skill_files) |->
        [path |-> skill_files[k], data |-> fs[skill_files[k]].data]]

\* upload_zip: the request fails, or the store keeps the archive under a code
UploadZip ==
    /\ pc = "upload"
    /\ \/ /\ server' = Append(server, [valid |-> tmpZip.valid, entries |-> tmpZip.entries,
                                       src |-> SourceFiles])
          /\ pc' = "cleanup"
          /\ UNCHANGED failedAt
       \/ /\ Fail("upload")
          /\ UNCHANGED server
    /\ UNCHANGED <<fs, tmpZip, cmd, base_dirs, rootIdx, skill_files, idx, name_count,
                   names, manifest_lines, file_map, extracted_files, runs, prev>>

\* download_zip: the request fails, or the store's bytes are written to zip_path
DownloadZip ==
    /\ pc = "download"
    /\ \/ /\ tmpZip' = [exists |-> TRUE, valid |-> server[cmd.code].valid,
                        entries |-> server[cmd.code].entries]
          /\ pc' = "open"
          /\ UNCHANGED failedAt
       \/ /\ Fail("download")
          /\ UNCHANGED tmpZip
    /\ UNCHANGED <<fs, server, cmd, base_dirs, rootIdx, skill_files, idx, name_count,
                   names, manifest_lines, file_map, extracted_files, runs, prev>>

\* extract_zip up to its loop: open the archive, read and parse manifest.txt
ExtractOpen ==
    /\ pc = "open"
    /\ IF ~tmpZip.valid
       THEN /\ Fail("extract")
            /\ UNCHANGED file_map
       ELSE /\ file_map' = ParseLines(Lines(ManifestOf(tmpZip.entries)), EmptyMap)
            /\ pc' = "extract"
            /\ UNCHANGED failedAt
    /\ UNCHANGED <<fs, tmpZip, server, cmd, base_dirs, rootIdx, skill_files, idx,
                   name_count, names, manifest_lines, extracted_files, runs, prev>>

\* --dir of download, or the default of lines 373-375
TargetDir == IF cmd.dir.some THEN cmd.dir.path ELSE ClaudeSkills

\* extract_zip: one iteration of the loop over the archive's entries
ExtractStep ==
    /\ pc = "extract"
    /\ idx <= Len(tmpZip.entries)
    /\ LET filename == tmpZip.entries[idx].name
       IN  IF IsManifestEntry(filename) \/ filename \notin DOMAIN file_map
           THEN /\ idx' = idx + 1
                /\ UNCHANGED <<fs, pc, failedAt, extracted_files>>
           ELSE LET original_path == file_map[filename]
                    full_path == FullPath(TargetDir, filename, original_path)
                    removed == IF ~Exists(fs, full_path) THEN fs
                               ELSE IF IsDir(fs, full_path) THEN RemoveDirAll(fs, full_path)
                               ELSE RemoveFile(fs, full_path)
                IN  IF Len(full_path) = 0
                    THEN \* remove_dir_all("/") empties the root and fails on it
                         /\ Fail("extract")
                         /\ fs' = Restrict(fs, {full_path})
                         /\ UNCHANGED <<idx, extracted_files>>
                    ELSE IF ~CreateDirAllOk(removed, Parent(full_path))
                    THEN /\ Fail("extract")
                         /\ fs' = removed
                         /\ UNCHANGED <<idx, extracted_files>>
                    ELSE LET made == CreateDirAll(removed, Parent(full_path))
                         IN  IF NamesDirectory(original_path) \/ ~FileCreateOk(made, full_path)
                             THEN /\ Fail("extract")
                                  /\ fs' = made
                                  /\ UNCHANGED <<idx, extracted_files>>
                             ELSE /\ fs' = WriteFile(made, full_path, tmpZip.entries[idx].data)
                                  /\ extracted_files' = Append(extracted_files,
                                         [index |-> idx, full_path |-> full_path])
                                  /\ idx' = idx + 1
                                  /\ UNCHANGED <<pc, failedAt>>
    /\ UNCHANGED <<tmpZip, server, cmd, base_dirs, rootIdx, skill_files, name_count,
                   names, manifest_lines, file_map, runs, prev>>

\* extract_zip after the loop: Ok(())
ExtractEnd ==
    /\ pc = "extract"
    /\ idx > Len(tmpZip.entries)
    /\ pc' = "cleanup"
    /\ UNCHANGED <<fs, tmpZip, server, cmd, base_dirs, rootIdx, skill_files, idx,
                   name_count, names, manifest_lines, file_map, extracted_files,
                   failedAt, runs, prev>>

\* fs::remove_file(&zip_path) at the end of execute_upload and execute_download
Cleanup ==
    /\ pc = "cleanup"
    /\ tmpZip' = NoFile
    /\ pc' = "done"
    /\ UNCHANGED <<fs, server, cmd, base_dirs, rootIdx, skill_files, idx, name_count,
                   names, manifest_lines, file_map, extracted_files, failedAt, runs, prev>>

Next ==
    \/ StartUpload
    \/ StartDownload
    \/ EnvChange
    \/ ScanRoot
    \/ ScanEnd
    \/ BuildStep
    \/ BuildEnd
    \/ UploadZip
    \/ DownloadZip
    \/ ExtractOpen
    \/ ExtractStep
    \/ ExtractEnd
    \/ Cleanup

Spec == Init /\ [][Next]_vars

-----------------------------------------------------------------------------
(* Claims *)

\* the number of files before position i with the owning directory name of i
Earlier(i) ==
    Cardinality({j \in 1..(i - 1) : SkillName(skill_files[j]) = SkillName(skill_files[i])})

\* C1 (as claimed): after a download of an archive that create_skills_zip
\* built from files with pairwise distinct owning directory names has ended
\* with Ok, every source file's path holds a file with the source's bytes.
C1_RoundTrip ==
    (/\ pc = "done"
     /\ cmd.kind = "download"
     /\ cmd.code \in 1..Len(server)
     /\ server[cmd.code].src # <<>>
     /\ \A i, j \in 1..Len(server[cmd.code].src) :
           i # j => SkillName(server[cmd.code].src[i].path)
                      # SkillName(server[cmd.code].src[j].path))
    => \A k \in 1..Len(server[cmd.code].src) :
          /\ IsFile(fs, server[cmd.code].src[k].path)
          /\ fs[server[cmd.code].src[k].path].data = server[cmd.code].src[k].data

\* C2 (as claimed): within one create_skills_zip call the entry names given
\* to the files are pairwise distinct, and so are the keys of the manifest
\* lines, one line per packaged file.
C2_EntryNamesUnique ==
    /\ \A i, j \in 1..Len(names) : i # j => names[i] # names[j]
    /\ \A i, j \in 1..Len(manifest_lines) :
          i # j => SubSeq(manifest_lines[i], 1, FirstIndex(manifest_lines[i], "=") - 1)
                     # SubSeq(manifest_lines[j], 1, FirstIndex(manifest_lines[j], "=") - 1)

\* C3: in one build call the i-th file, whose owning directory is named N,
\* gets the name N.md when no earlier file of the call has that directory
\* name, and N_k.md when k >= 1 earlier files have it.
C3_CollisionNaming ==
    \A i \in 1..Len(names) :
        names[i] = IF Earlier(i) = 0
                   THEN SkillName(skill_files[i]) \o <<".", "m", "d">>
                   ELSE SkillName(skill_files[i]) \o <<"_">> \o Decimal(Earlier(i))
                            \o <<".", "m", "d">>

\* C3 witness: three files of directories named foo were named in one call
C3_Witness ==
    names = << <<"f", "o", "o", ".", "m", "d">>,
               <<"f", "o", "o", "_", "1", ".", "m", "d">>,
               <<"f", "o", "o", "_", "2", ".", "m", "d">> >>

\* the manifest lines of the archive at zip_path that contain '=' and whose
\* text before the first '=' is name
LinesNaming(name) ==
    LET lines == Lines(ManifestOf(tmpZip.entries))
    IN  {k \in 1..Len(lines) :
            /\ \E c \in 1..Len(lines[k]) : lines[k][c] = "="
            /\ SubSeq(lines[k], 1, FirstIndex(lines[k], "=") - 1) = name}

\* the manifest of the archive at zip_path has a line without '='
HasMalformedLine ==
    LET lines == Lines(ManifestOf(tmpZip.entries))
    IN  \E k \in 1..Len(lines) : \A c \in 1..Len(lines[k]) : lines[k][c] # "="

\* extract_zip is running or has just returned, the archive still at zip_path
Restoring == cmd.kind = "download" /\ tmpZip.exists /\ tmpZip.valid

\* C4 (as claimed): when extract_zip has run on the same archive in two
\* consecutive commands with the file system untouched in between, the second
\* run leaves the file system as the first left it, and it returns Ok
\* whenever the first did.
C4_IdempotentRestore ==
    (Ended /\ RanExtract /\ prev.some /\ prev.code = cmd.code)
    => /\ fs = prev.fs
       /\ prev.ok => pc = "done"

\* C5: every entry extract_zip writes is not named manifest.txt and is named
\* by a manifest line; an error of extract_zip on a readable archive comes
\* from such an entry, never from manifest.txt or from an entry without a line.
C5_OnlyManifestedEntriesWritten ==
    Restoring =>
        /\ \A k \in 1..Len(extracted_files) :
              /\ tmpZip.entries[extracted_files[k].index].name # manifest_txt
              /\ LinesNaming(tmpZip.entries[extracted_files[k].index].name) # {}
        /\ (pc = "failed" /\ failedAt = "extract") =>
              /\ idx \in 1..Len(tmpZip.entries)
              /\ tmpZip.entries[idx].name # manifest_txt
              /\ LinesNaming(tmpZip.entries[idx].name) # {}

\* C5 witness: extract_zip returned Ok on an archive that holds an entry
\* without a manifest line and a manifest line naming manifest.txt, having
\* written another entry
C5_Witness ==
    /\ Restoring
    /\ pc = "cleanup"
    /\ extracted_files # <<>>
    /\ LinesNaming(manifest_txt) # {}
    /\ \E i \in 1..Len(tmpZip.entries) :
          tmpZip.entries[i].name # manifest_txt /\ LinesNaming(tmpZip.entries[i].name) = {}

\* C6 (as claimed): when an upload or download command has ended, with Ok or
\* with an error, the temporary archive it created no longer exists.
C6_TempArchiveRemoved == Ended => ~tmpZip.exists

\* the entries below an existing root that scan_skill_files is to return
Expected(root) ==
    {p \in DOMAIN fs :
        /\ Exists(fs, root)
        /\ IsPrefix(root, p)
        /\ Len(p) - Len(root) \in 1..3
        /\ FileName(p) \in {SKILL_md, skill_md}}

\* the scan's result belongs to the file system as it is now
Scanned == cmd.kind = "upload" /\ pc # "idle"

\* C7: after any number of roots, the paths found are exactly the matching
\* entries of the existing roots handled so far, a missing root adding none,
\* and they are in root order; once the scan is over every root was handled.
C7_MissingRootSkipped ==
    Scanned =>
        /\ {skill_files[i] : i \in 1..Len(skill_files)}
              = UNION {Expected(base_dirs[r]) : r \in 1..(rootIdx - 1)}
        /\ \A i, j \in 1..Len(skill_files) :
              i < j => \E r, t \in 1..(rootIdx - 1) :
                          /\ r <= t
                          /\ IsPrefix(base_dirs[r], skill_files[i])
                          /\ IsPrefix(base_dirs[t], skill_files[j])
        /\ pc # "scan" => rootIdx = Len(base_dirs) + 1

\* C7 witness: the scan is over, the first root does not exist, the second
\* one does and its files were found
C7_Witness ==
    /\ Scanned
    /\ pc = "build"
    /\ Len(base_dirs) = 2
    /\ ~Exists(fs, base_dirs[1])
    /\ Exists(fs, base_dirs[2])
    /\ skill_files # <<>>

\* C8 (as claimed): once the scan is over, the paths returned are exactly the
\* files at depth 1 to 3 below an existing root that are named SKILL.md or
\* skill.md.
C8_ExactlySkillFiles ==
    (Scanned /\ pc # "scan") =>
        {skill_files[i] : i \in 1..Len(skill_files)}
            = {p \in DOMAIN fs :
                  /\ IsFile(fs, p)
                  /\ FileName(p) \in {SKILL_md, skill_md}
                  /\ \E r \in 1..Len(base_dirs) :
                        /\ Exists(fs, base_dirs[r])
                        /\ IsPrefix(base_dirs[r], p)
                        /\ Len(p) - Len(base_dirs[r]) \in 1..3}

\* C9: when extract_zip returns Ok, every entry other than manifest.txt that
\* a manifest line with '=' names was written, whatever lines without '=' the
\* manifest holds; and a readable archive never fails before its first entry.
C9_MalformedLineIgnored ==
    Restoring =>
        /\ pc = "cleanup" =>
              \A i \in 1..Len(tmpZip.entries) :
                  (tmpZip.entries[i].name # manifest_txt
                      /\ LinesNaming(tmpZip.entries[i].name) # {})
                  => \E k \in 1..Len(extracted_files) : extracted_files[k].index = i
        /\ pc = "failed" => (failedAt = "extract" /\ idx \in 1..Len(tmpZip.entries))

\* C9 witness: extract_zip returned Ok on an archive whose manifest has a
\* line without '=', and wrote an entry
C9_Witness ==
    /\ Restoring
    /\ pc = "cleanup"
    /\ HasMalformedLine
    /\ extracted_files # <<>>

StageOrder ==
    {<<"scan", "scan">>, <<"scan", "build">>, <<"scan", "done">>,
     <<"build", "build">>, <<"build", "upload">>, <<"build", "failed">>,
     <<"upload", "cleanup">>, <<"upload", "failed">>,
     <<"download", "open">>, <<"download", "failed">>,
     <<"open", "extract">>, <<"open", "failed">>,
     <<"extract", "extract">>, <<"extract", "cleanup">>, <<"extract", "failed">>,
     <<"cleanup", "done">>}

\* a step between two commands: a new command starts, or the environment
\* changes the files
BetweenCommands ==
    /\ pc \in {"idle", "done", "failed"}
    /\ \/ runs' = runs + 1 /\ pc' \in {"scan", "download"}
       \/ runs' = runs /\ pc' = "idle"

\* C11: within one command the stages run in a fixed order and each at most
\* once: every step moves to a later stage or is the next iteration of a
\* stage's loop, the stage that sends the request (upload, download) is left
\* by its single step, and nothing follows a failure but a new command.  The
\* restorer runs and user files change only after download_zip has written
\* the archive; the upload request is sent only for an archive that
\* create_skills_zip finished.
C11_StagesOnceFailureFatal ==
    [][\/ BetweenCommands
       \/ /\ runs' = runs
          /\ <<pc, pc'>> \in StageOrder
          /\ pc' = pc => IF pc = "scan" THEN rootIdx' = rootIdx + 1 ELSE idx' = idx + 1
          /\ pc' = "failed" => failedAt' = pc \/ (pc = "open" /\ failedAt' = "extract")
          /\ pc' # "failed" => failedAt' = "none"
          /\ pc \in {"open", "extract"} => cmd.kind = "download" /\ tmpZip.exists
          /\ fs' # fs => pc = "extract"
          /\ pc = "upload" => cmd.kind = "upload" /\ tmpZip.valid /\ failedAt = "none"
          /\ server' # server => pc = "upload"]_vars

\* C11 witness: a download command whose request failed has ended: the
\* restorer did not run and no archive was written
C11_Witness ==
    /\ pc = "failed"
    /\ cmd.kind = "download"
    /\ failedAt = "download"
    /\ ~tmpZip.exists
    /\ extracted_files = <<>>
    /\ file_map = EmptyMap

\* C12 (as claimed): every file a step of extract_zip creates, replaces or
\* removes lies inside the home directory: each path whose node the step
\* adds, changes or drops, and each path it records as written, has the home
\* directory as a prefix.
C12_ConfinedToHome ==
    [][pc = "extract" =>
          /\ \A p \in DOMAIN fs \cup DOMAIN fs' :
                (p \notin DOMAIN fs \/ p \notin DOMAIN fs' \/ fs[p] # fs'[p])
                => IsPrefix(Home, p)
          /\ \A k \in 1..Len(extracted_files') :
                IsPrefix(Home, extracted_files'[k].full_path)]_vars

====
